---------------------------- MODULE Spec2Model ----------------------------
(***************************************************************************)
(* Telemetry/command protocol engine of the MG24 fan controller:           *)
(*   - the telemetry parser (parseTelemetry, TelemetryStreamParser) of     *)
(*     src/client/src/components/DebugConsole.tsx, lines 145-307;          *)
(*   - the connection session kept by the FanController component of       *)
(*     src/client/src/pages/FanController.tsx (connectBluetooth,           *)
(*     startReading, handleCharacteristicChange, sendCommand,              *)
(*     setMotorMode, toggleAutoShutoff, disconnectBluetooth);              *)
(*   - the debug console log of FanController (addDebugMessage,            *)
(*     clearDebugMessages);                                                *)
(*   - NativeBluetoothService and its ipcMain handlers                     *)
(*     (setupBluetoothIPC) of the Electron main process.                   *)
(*                                                                         *)
(* Text is a TLA+ string, a Uint8Array / DataView is a tuple of byte       *)
(* codes.  The wire format is ASCII, and the byte alphabet of the model is *)
(* the printable ASCII range plus tab, line feed and carriage return.      *)
(* Timestamps (Date.now()) are left out.  The log is kept by the           *)
(* specification of the log; the session specifications leave out the      *)
(* entries that sendCommand and handleCharacteristicChange add to it,      *)
(* which no handler reads.                                                 *)
(***************************************************************************)
EXTENDS Integers, Sequences, FiniteSets, Bags, TLC

VARIABLES
    \* ---- TelemetryStreamParser (one instance, telemetryParserRef) ----
    buffer,             \* TelemetryStreamParser.buffer
    \* ---- driver of the decoder on its own (specification SpecFeed) ----
    input,              \* the byte stream the transport is going to deliver
    fed,                \* how many bytes of input were handed to feed so far
    frames,             \* the records returned by all feed calls so far
    \* ---- React state of FanController ----
    connected,          \* useState(false)
    connectionStatus,   \* useState('Disconnected')
    error,              \* useState(null)
    currentMode,        \* useState('stop')
    autoShutoffEnabled, \* useState(false)
    motorState,         \* useState({status: 'Stop', ...})
    \* ---- refs of FanController ----
    characteristicRef,  \* useRef(null)
    readerRef,          \* useRef(null)
    \* ---- handler invocations suspended at an await ----
    tasks,              \* bag of [op, pc]
    \* ---- the transport (Web Bluetooth peripheral and its characteristic) ----
    linkUp,             \* the GATT link to the peripheral is established
    notifying,          \* notifications are started on the characteristic
    listeners,          \* 'characteristicvaluechanged' listeners attached to it
    hasReadable,        \* the characteristic offers the optional `readable` stream
    stream,             \* state of that stream: "unlocked", "locked", "cancelled"
    written,            \* the bytes handed to characteristic.writeValue by the last sendCommand
    \* ---- the debug console log of FanController ----
    debugMessages,      \* useState([]): the messages, each with its id
    debugMessageIdRef,  \* useRef(0)
    \* ---- NativeBluetoothService (Electron main process) ----
    isScanning,         \* private isScanning = false
    connectedDevice,    \* private connectedDevice = null
    discoveredDevices,  \* private discoveredDevices = new Map(), as the set of its keys
    timers,             \* setTimeout callbacks of startScan that have not run yet
    handlers,           \* the channels that ipcMain.handle has a handler for
    reply               \* what the last ipcMain handler returned to the renderer

parserVars == <<buffer>>
feedVars == <<input, fed, frames>>
uiVars == <<connected, connectionStatus, error, currentMode, autoShutoffEnabled,
            motorState>>
refVars == <<characteristicRef, readerRef>>
transportVars == <<linkUp, notifying, listeners, hasReadable, stream, written>>
sessionVars == <<uiVars, refVars, tasks, transportVars>>
logVars == <<debugMessages, debugMessageIdRef>>
serviceVars == <<isScanning, connectedDevice, discoveredDevices, timers, handlers, reply>>
sideVars == <<logVars, serviceVars>>
vars == <<parserVars, feedVars, sessionVars, sideVars>>

-----------------------------------------------------------------------------
(* Characters, bytes and the TextDecoder / TextEncoder conversions *)

\* Printable ASCII, codes 32..126 in order.  The double quote (34) and the
\* back quote (96) cannot be written in a string here; their places hold a
\* space and no modelled input uses these two codes.
AsciiPrintable ==
    " ! #$%&'()*+,-./0123456789:;<=>?@ABCDEFGHIJKLMNOPQRSTUVWXYZ[\\]^_ abcdefghijklmnopqrstuvwxyz{|}~"

CharAt(s, i) == SubSeq(s, i, i)

ModelledBytes == {9, 10, 13} \cup ((32..126) \ {34, 96})

\* The code point of an ASCII byte (UTF-8 maps bytes below 128 to themselves).
ChrTable ==
    [b \in ModelledBytes |->
        CASE b = 9 -> "\t"
          [] b = 10 -> "\n"
          [] b = 13 -> "\r"
          [] OTHER -> CharAt(AsciiPrintable, b - 31)]

Chr(b) == ChrTable[b]

OrdTable ==
    [c \in {ChrTable[b] : b \in ModelledBytes} |->
        CHOOSE b \in ModelledBytes : ChrTable[b] = c]

Ord(c) == OrdTable[c]

\* new TextDecoder().decode(data): the characters of bytes lo..hi of data,
\* by halves
RECURSIVE DecodeRange(_, _, _)
DecodeRange(data, lo, hi) ==
    IF lo > hi THEN ""
    ELSE IF lo = hi THEN Chr(data[lo])
    ELSE DecodeRange(data, lo, (lo + hi) \div 2)
             \o DecodeRange(data, (lo + hi) \div 2 + 1, hi)

TextDecode(data) == DecodeRange(data, 1, Len(data))

\* new TextEncoder().encode(str)
RECURSIVE EncodeRange(_, _, _)
EncodeRange(str, lo, hi) ==
    IF lo > hi THEN <<>>
    ELSE IF lo = hi THEN <<Ord(CharAt(str, lo))>>
    ELSE EncodeRange(str, lo, (lo + hi) \div 2)
             \o EncodeRange(str, (lo + hi) \div 2 + 1, hi)

TextEncode(str) == EncodeRange(str, 1, Len(str))

Chars(s) == {CharAt(s, i) : i \in 1..Len(s)}

UpperLetters == "ABCDEFGHIJKLMNOPQRSTUVWXYZ"
LowerLetters == "abcdefghijklmnopqrstuvwxyz"
DigitChars == "0123456789"

\* Character classes of the regular expression: \s, \d, \w and [\d.]
SpaceClass == {" ", "\t", "\n", "\r", "\f"}
DigitClass == Chars(DigitChars)
WordClass == Chars(UpperLetters) \cup Chars(LowerLetters) \cup DigitClass \cup {"_"}
SpeedClass == DigitClass \cup {"."}

\* Case folding of the i flag
LowerTable ==
    [c \in Chars(UpperLetters) |->
        CharAt(LowerLetters, CHOOSE i \in 1..26 : CharAt(UpperLetters, i) = c)]

ToLowerChar(c) == IF c \in DOMAIN LowerTable THEN LowerTable[c] ELSE c

RECURSIVE ToLower(_)
ToLower(s) ==
    IF Len(s) = 0 THEN ""
    ELSE ToLowerChar(CharAt(s, 1)) \o ToLower(SubSeq(s, 2, Len(s)))

DigitTable ==
    [c \in DigitClass |-> (CHOOSE i \in 1..10 : CharAt(DigitChars, i) = c) - 1]

DigitVal(c) == DigitTable[c]

-----------------------------------------------------------------------------
(* parseTelemetry *)

\* String.prototype.trim
RECURSIVE TrimStart(_)
TrimStart(s) ==
    IF Len(s) > 0 /\ CharAt(s, 1) \in SpaceClass
    THEN TrimStart(SubSeq(s, 2, Len(s)))
    ELSE s

RECURSIVE TrimEnd(_)
TrimEnd(s) ==
    IF Len(s) > 0 /\ CharAt(s, Len(s)) \in SpaceClass
    THEN TrimEnd(SubSeq(s, 1, Len(s) - 1))
    ELSE s

Trim(s) == TrimEnd(TrimStart(s))

\* The index after the longest run of characters of class that starts at i
\* (a greedy quantifier; every quantified class of the pattern is disjoint
\* from what follows it, so the greedy run is the only candidate).
RECURSIVE SkipClass(_, _, _)
SkipClass(class, s, i) ==
    IF i <= Len(s) /\ CharAt(s, i) \in class
    THEN SkipClass(class, s, i + 1)
    ELSE i

\* Whether the characters of s from index i on are, case folded, those of
\* the lower-case literal lit from its k-th on
RECURSIVE LiteralAt(_, _, _, _)
LiteralAt(lit, s, i, k) ==
    \/ k > Len(lit)
    \/ /\ i <= Len(s)
       /\ ToLowerChar(CharAt(s, i)) = CharAt(lit, k)
       /\ LiteralAt(lit, s, i + 1, k + 1)

\* A literal of the pattern under the i flag at index i: the index after it,
\* or 0 when it does not match.
MatchLiteral(lit, s, i) ==
    IF LiteralAt(lit, s, i, 1) THEN i + Len(lit) ELSE 0

\* The literals of the pattern, case folded
LitMotor == ToLower("Motor:")
LitSpeed == ToLower("Speed:")
LitAnomaly == ToLower("Anomaly:")

NoMatch == [ok |-> FALSE]

\* The parts of the pattern.  Each takes the index where it starts and gives
\* the index after it; 0 stands for "no match" and is passed on.
Literal(lit, s, i) == IF i = 0 THEN 0 ELSE MatchLiteral(lit, s, i)
Star(class, s, i) == IF i = 0 THEN 0 ELSE SkipClass(class, s, i)
NonEmpty(i, j) == IF j = i THEN 0 ELSE j
Plus(class, s, i) == IF i = 0 THEN 0 ELSE NonEmpty(i, SkipClass(class, s, i))

\* /Motor:\s*(\w+)\s+Speed:\s*([\d.]+)\s+Anomaly:\s*(\d+)%/i tried at index
\* i: where each capture group starts and ends, and where the match ends
StatusStart(s, i) == Star(SpaceClass, s, Literal(LitMotor, s, i))
StatusEnd(s, i) == Plus(WordClass, s, StatusStart(s, i))
SpeedStart(s, i) ==
    Star(SpaceClass, s, Literal(LitSpeed, s, Plus(SpaceClass, s, StatusEnd(s, i))))
SpeedEnd(s, i) == Plus(SpeedClass, s, SpeedStart(s, i))
AnomalyStart(s, i) ==
    Star(SpaceClass, s, Literal(LitAnomaly, s, Plus(SpaceClass, s, SpeedEnd(s, i))))
AnomalyEnd(s, i) == Plus(DigitClass, s, AnomalyStart(s, i))
MatchEnd(s, i) == Literal("%", s, AnomalyEnd(s, i))

MatchAt(s, i) ==
    IF MatchEnd(s, i) = 0 THEN NoMatch
    ELSE [ok |-> TRUE,
          g1 |-> SubSeq(s, StatusStart(s, i), StatusEnd(s, i) - 1),
          g2 |-> SubSeq(s, SpeedStart(s, i), SpeedEnd(s, i) - 1),
          g3 |-> SubSeq(s, AnomalyStart(s, i), AnomalyEnd(s, i) - 1)]

\* line.match(regex): the pattern is not anchored; the start indices are
\* tried from the left and the first match wins
RECURSIVE MatchStart(_, _)
MatchStart(s, i) ==
    IF i > Len(s) THEN 0
    ELSE IF MatchEnd(s, i) # 0 THEN i
    ELSE MatchStart(s, i + 1)

MatchFrom(s, i) == IF i = 0 THEN NoMatch ELSE MatchAt(s, i)

RegexMatch(s) == MatchFrom(s, MatchStart(s, 1))

\* The value of a digit string
RECURSIVE DigitsValue(_)
DigitsValue(s) ==
    IF Len(s) = 0 THEN 0
    ELSE DigitsValue(SubSeq(s, 1, Len(s) - 1)) * 10 + DigitVal(CharAt(s, Len(s)))

RECURSIVE Pow10(_)
Pow10(k) == IF k = 0 THEN 1 ELSE 10 * Pow10(k - 1)

\* A decimal number n / d with d a power of ten, without trailing zeros
RECURSIVE Normalise(_, _)
Normalise(n, d) ==
    IF d > 1 /\ n % 10 = 0 THEN Normalise(n \div 10, d \div 10)
    ELSE [n |-> n, d |-> d]

NaN == [n |-> 0, d |-> 0]
IsNaN(x) == x.d = 0

\* parseFloat on a token of [\d.]+ : the longest prefix that is a decimal
\* literal (digits, then at most one point and digits), NaN when that
\* prefix has no digit.  Tokens are short enough for the double to equal
\* the decimal number.
DecimalOf(intDigits, fracDigits) ==
    IF Len(intDigits) + Len(fracDigits) = 0 THEN NaN
    ELSE Normalise(DigitsValue(intDigits \o fracDigits), Pow10(Len(fracDigits)))

FloatFrom(tok, e1) ==
    DecimalOf(SubSeq(tok, 1, e1 - 1),
              IF e1 <= Len(tok) /\ CharAt(tok, e1) = "."
              THEN SubSeq(tok, e1 + 1, SkipClass(DigitClass, tok, e1 + 1) - 1)
              ELSE "")

ParseFloat(tok) == FloatFrom(tok, SkipClass(DigitClass, tok, 1))

\* parseInt(tok, 10) on a token of \d+
ParseInt(tok) == DigitsValue(tok)

\* x < 0, x > 25 on decimal numbers
DecLess(x, k) == x.n < k * x.d
DecGreater(x, k) == x.n > k * x.d

\* A conversion that divides by pi and not by 2 pi; RpmDerivation does not
\* hold of it
RpmOfHalfTurns(speed) == Normalise(speed.n * 60, speed.d)

\* (speed * 60) / (2 * Math.PI), kept exact as rpm = (n / d) / pi
RpmOf(speed) == Normalise(speed.n * 30, speed.d)

StatusValues == {"Running", "Stop", "Error"}

Null == [null |-> TRUE]

\* A record whose flag is set from 50 on; ThresholdExactness does not hold
\* of it
TelemetryAtLeast(status, speed, pct) ==
    [status |-> status,
     speed |-> speed,
     rpm |-> RpmOf(speed),
     anomalyPercentage |-> pct,
     anomalyDetected |-> pct >= 50]

\* MotorTelemetry without its timestamp
Telemetry(status, speed, pct) ==
    [status |-> status,
     speed |-> speed,
     rpm |-> RpmOf(speed),
     anomalyPercentage |-> pct,
     anomalyDetected |-> pct > 50]

\* A validation without the ranges of speed and percentage; RecordValidity
\* does not hold of it
ValidateFieldsNoRange(status, speed, anomalyPercentage) ==
    IF status \notin StatusValues THEN Null
    ELSE IF IsNaN(speed) THEN Null
    ELSE Telemetry(status, speed, anomalyPercentage)

\* The validation of the captured fields
ValidateFields(status, speed, anomalyPercentage) ==
    IF status \notin StatusValues THEN Null
    ELSE IF IsNaN(speed) \/ DecLess(speed, 0) \/ DecGreater(speed, 25) THEN Null
    ELSE IF anomalyPercentage < 0 \/ anomalyPercentage > 100 THEN Null
    ELSE Telemetry(status, speed, anomalyPercentage)

ValidateMatch(match) ==
    IF ~match.ok THEN Null
    ELSE ValidateFields(match.g1, ParseFloat(match.g2), ParseInt(match.g3))

parseTelemetry(message) == ValidateMatch(RegexMatch(Trim(message)))

-----------------------------------------------------------------------------
(* TelemetryStreamParser *)

\* String.prototype.split('\n'): the segments between line feeds, in order
RECURSIVE IndexOfNewline(_, _)
IndexOfNewline(s, i) ==
    IF i > Len(s) THEN 0
    ELSE IF CharAt(s, i) = "\n" THEN i
    ELSE IndexOfNewline(s, i + 1)

RECURSIVE SplitLines(_)
SplitAt(s, k) ==
    IF k = 0 THEN <<s>>
    ELSE <<SubSeq(s, 1, k - 1)>> \o SplitLines(SubSeq(s, k + 1, Len(s)))

SplitLines(s) == SplitAt(s, IndexOfNewline(s, 1))

\* frames.push(telemetry) when telemetry is not null
Pushed(telemetry) == IF telemetry # Null THEN <<telemetry>> ELSE <<>>

\* A loop that stops at the first line that fails validation;
\* MalformedLineDropped does not hold of it
RECURSIVE ParseLinesUntilBad(_, _)
ParseLinesUntilBad(lines, i) ==
    IF i > Len(lines) - 1 THEN <<>>
    ELSE IF parseTelemetry(lines[i]) = Null THEN <<>>
    ELSE <<parseTelemetry(lines[i])>> \o ParseLinesUntilBad(lines, i + 1)

\* The loop of feed over the complete lines
RECURSIVE ParseLines(_, _)
ParseLines(lines, i) ==
    IF i > Len(lines) - 1 THEN <<>>
    ELSE Pushed(parseTelemetry(lines[i])) \o ParseLines(lines, i + 1)

\* A feed that keeps the first line instead of the last; BufferInvariant does
\* not hold of it
FeedLinesKeepFirst(lines) ==
    [buffer |-> lines[1],
     frames |-> ParseLines(lines, 1)]

\* A feed that validates the pending text too, before its line feed has
\* come; EmittedAtTerminator does not hold of it
FeedLinesFlushing(lines) ==
    [buffer |-> lines[Len(lines)],
     frames |-> ParseLines(lines \o <<"">>, 1)]

\* What feed does with the lines of the buffer: the last one is kept, the
\* others are parsed
FeedLines(lines) ==
    [buffer |-> lines[Len(lines)],
     frames |-> ParseLines(lines, 1)]

\* A feed that forgets the pending text between calls; FragmentationInvariance
\* does not hold of it
FeedForgetful(buf, data) == FeedLines(SplitLines(TextDecode(data)))

\* A feed that takes an empty chunk for the end of the stream and clears the
\* pending text; EmptyChunkNoOp does not hold of it
FeedClearingOnEmpty(buf, data) ==
    IF Len(data) = 0 THEN FeedLines(<<"">>)
    ELSE FeedLines(SplitLines(buf \o TextDecode(data)))

\* feed(data) on a parser whose buffer is buf: the new buffer and the
\* frames returned
Feed(buf, data) == FeedLines(SplitLines(buf \o TextDecode(data)))

\* A reset that leaves the pending text in place; ResetDiscards does not hold
\* of it
ResetKeeping == buffer

\* reset(): the buffer after the call
Reset == ""

-----------------------------------------------------------------------------
(* Initial values of the FanController component and of the transport *)

DefaultMotorState == Telemetry("Stop", [n |-> 0, d |-> 1], 0)

NoError == "null"
NoRef == "null"

\* The main process once main.ts is loaded: NativeBluetoothService is
\* constructed and the handler of bluetooth:get-platform is registered; the
\* app is not ready yet
NoDevice == "null"
NoReply == [pending |-> TRUE]

ServiceInit ==
    /\ isScanning = FALSE
    /\ connectedDevice = NoDevice
    /\ discoveredDevices = {}
    /\ timers = 0
    /\ handlers = {"bluetooth:get-platform"}
    /\ reply = NoReply

SessionInit ==
    /\ connected = FALSE
    /\ connectionStatus = "Disconnected"
    /\ error = NoError
    /\ currentMode = "stop"
    /\ autoShutoffEnabled = FALSE
    /\ motorState = DefaultMotorState
    /\ characteristicRef = NoRef
    /\ readerRef = NoRef
    /\ tasks = EmptyBag
    /\ linkUp = FALSE
    /\ notifying = FALSE
    /\ listeners = 0
    /\ stream = "unlocked"
    /\ written = <<>>
    /\ debugMessages = <<>>
    /\ debugMessageIdRef = 0

-----------------------------------------------------------------------------
(* The decoder on its own: a stream of telemetry lines cut into chunks *)

\* Lines on the wire: an example message of FIRMWARE_INTEGRATION_FINAL.md,
\* a shorter line that parseTelemetry accepts and one that it rejects
WireLines ==
    {"Motor: Running  Speed: 15.50 Anomaly: 5%",
     "Motor: Error Speed: 0 Anomaly: 95%",
     "Motor: Idle"}

MaxLines == 2

\* The streams of 1..MaxLines newline-terminated lines
RECURSIVE StreamsOf(_)
StreamsOf(k) ==
    IF k = 0 THEN {""}
    ELSE {l \o "\n" \o rest : l \in WireLines, rest \in StreamsOf(k - 1)}

Streams == UNION {StreamsOf(k) : k \in 1..MaxLines}

InitFeed ==
    /\ buffer = ""
    /\ input \in {TextEncode(st) : st \in Streams}
    /\ fed = 0
    /\ frames = <<>>
    /\ hasReadable = FALSE
    /\ SessionInit
    /\ ServiceInit

\* One call of feed with the next n bytes of the stream (n = 0: an empty chunk)
FeedChunk(n) ==
    LET r == Feed(buffer, SubSeq(input, fed + 1, fed + n))
    IN  /\ fed + n <= Len(input)
        /\ buffer' = r.buffer
        /\ frames' = frames \o r.frames
        /\ fed' = fed + n
        /\ UNCHANGED <<input, sessionVars, sideVars>>

NextFeed == \E n \in 0..Len(input) : FeedChunk(n)

SpecFeed == InitFeed /\ [][NextFeed]_vars

-----------------------------------------------------------------------------
(* The line validator on its own: lines put together from field tokens *)

\* Tokens of the three fields: the keywords, keywords in another letter case
\* and a word that is no keyword; speeds in and out of [0, 25] and tokens of
\* [\d.]+ that are no number; percentages in and out of [0, 100]
StatusTokens == {"Running", "Stop", "Error", "running", "STOP", "eRRor", "Idle"}
SpeedTokens == {"0.00", "10", "15.50", "25", "25.01", "30", ".", "1.2.3"}
PercentTokens == {"0", "50", "51", "100", "101"}
FieldGaps == {" ", "  "}

\* "Motor: <status>  Speed: <speed> Anomaly: <percentage>%" with gap between
\* the fields
LineOf(status, speed, pct, gap) ==
    "Motor: " \o status \o gap \o "Speed: " \o speed \o gap \o "Anomaly: " \o pct \o "%"

Fields == StatusTokens \X SpeedTokens \X PercentTokens \X FieldGaps

LineTable == [f \in Fields |-> TextEncode(LineOf(f[1], f[2], f[3], f[4]))]

\* Lines that the pattern does not match: no field, a signed speed, no
\* percent sign, no space before Speed, a fractional percentage
UnmatchedLines ==
    {"garbage",
     "Motor: Running  Speed: -1 Anomaly: 5%",
     "Motor: Running  Speed: 15.50 Anomaly: 5",
     "Motor: RunningSpeed: 15.50 Anomaly: 5%",
     "Motor: Running  Speed: 15.50 Anomaly: 5.5%"}

\* The example feedback lines of the README (Feedback Format), which have no
\* Anomaly field
ReadmeLines ==
    {"Motor: Running  Speed: 19.87",
     "Motor: Stop  Speed: 0.00",
     "Motor: Error  Speed: 0.00"}

\* Lines that hold a frame and more: text before Motor:, text after the %,
\* and two frames on one line (the line feed between them was lost)
EmbeddedLines ==
    {"x Motor: Stop Speed: 1 Anomaly: 5%",
     "Motor: Stop Speed: 1 Anomaly: 5% x",
     "Motor: Stop Speed: 1 Anomaly: 5%Motor: Error Speed: 2 Anomaly: 60%"}

InitParse ==
    /\ buffer = ""
    /\ input \in {LineTable[f] : f \in Fields}
                \cup {TextEncode(l) : l \in UnmatchedLines \cup ReadmeLines \cup EmbeddedLines}
    /\ fed = 0
    /\ frames = <<>>
    /\ hasReadable = FALSE
    /\ SessionInit
    /\ ServiceInit

\* parseTelemetry(line) on the line
ParseLine ==
    /\ fed = 0
    /\ frames' = Pushed(parseTelemetry(TextDecode(input)))
    /\ fed' = Len(input)
    /\ UNCHANGED <<buffer, input, sessionVars, sideVars>>

\* feed(line + "\n") on a new parser
FeedLine ==
    /\ fed = 0
    /\ frames' = Feed(buffer, input \o <<10>>).frames
    /\ buffer' = Feed(buffer, input \o <<10>>).buffer
    /\ fed' = Len(input) + 1
    /\ UNCHANGED <<input, sessionVars, sideVars>>

NextParse == ParseLine \/ FeedLine

SpecParse == InitParse /\ [][NextParse]_vars

-----------------------------------------------------------------------------
(* The connection session: handlers of FanController and transport events *)

\* The caller-visible phase.  The component keeps no phase field; it shows
\* `connected` and `connectionStatus`.  Idle, Disconnected and Failed all
\* show as 'Disconnected' with connected = false.
Phase ==
    IF connected THEN "Connected"
    ELSE IF connectionStatus \in {"Scanning...", "Connecting..."} THEN "Connecting"
    ELSE "Disconnected"

\* Bound on the handler invocations (connect, disconnect) that are
\* suspended at an await at the same time
MaxPending == 2
\* Bound on the listeners attached to the characteristic
MaxListeners == 2
\* Bound on the length of the parser's pending buffer
MaxBuffer == 30

Task(op, pc) == [op |-> op, pc |-> pc]
ConnectTask(pc) == Task("connect", pc)
DisconnectTask(pc) == Task("disconnect", pc)
ReadTask == Task("read", "read")

Pending == BagToSet(tasks)
Spawn(t) == tasks (+) SetToBag({t})
Retire(t) == tasks (-) SetToBag({t})
Advance(t, u) == (tasks (-) SetToBag({t})) (+) SetToBag({u})
PendingCount ==
    BagCardinality(tasks) - (IF BagIn(ReadTask, tasks) THEN CopiesIn(ReadTask, tasks) ELSE 0)
ConnectsInFlight ==
    LET cs == {t \in Pending : t.op = "connect"}
    IN  IF cs = {} THEN 0
        ELSE BagCardinality([t \in cs |-> CopiesIn(t, tasks)])

\* Chunks the peripheral notifies: the two of the scenario of spec.md
\* (Testable Properties), and one that ends a line and begins another up to
\* the same cut
PartialChunk == TextEncode("Motor: Running  Speed: 15.")
Chunks ==
    {PartialChunk,
     TextEncode("50 Anomaly: 5%\nMotor: Stop"),
     TextEncode("50 Anomaly: 5%\nMotor: Error  Speed: 0.")}

\* err.message of a rejected transport call
NotFoundError == "NotFoundError"
NetworkError == "NetworkError"
NotConnectedMessage == "Not connected to device"

\* The last telemetry of frames applied by setMotorState, in order
ApplyFrames(state, fs) == IF fs = <<>> THEN state ELSE fs[Len(fs)]

\* handleCharacteristicChange run by k attached listeners on one event
RECURSIVE Dispatch(_, _, _, _)
Dispatch(k, buf, state, value) ==
    IF k = 0 THEN [buffer |-> buf, motorState |-> state]
    ELSE LET r == Feed(buf, value)
         IN  Dispatch(k - 1, r.buffer, ApplyFrames(state, r.frames), value)

Init ==
    /\ buffer = ""
    /\ input = <<>>
    /\ fed = 0
    /\ frames = <<>>
    /\ hasReadable \in BOOLEAN
    /\ SessionInit
    /\ ServiceInit

\* ---- connectBluetooth ----

\* The Connect button (rendered while !connected) is clicked: the handler
\* runs up to its first await, navigator.bluetooth.requestDevice(...)
ConnectBluetooth ==
    /\ ~connected
    /\ PendingCount < MaxPending
    /\ error' = NoError
    /\ connectionStatus' = "Scanning..."
    /\ tasks' = Spawn(ConnectTask("requestDevice"))
    /\ UNCHANGED <<connected, currentMode, autoShutoffEnabled, motorState>>
    /\ UNCHANGED <<parserVars, feedVars, sideVars, refVars, transportVars>>

\* requestDevice resolves (the user picked the peripheral)
RequestDeviceResolved ==
    /\ BagIn(ConnectTask("requestDevice"), tasks)
    /\ connectionStatus' = "Connecting..."
    /\ tasks' = Advance(ConnectTask("requestDevice"), ConnectTask("gattConnect"))
    /\ UNCHANGED <<connected, error, currentMode, autoShutoffEnabled, motorState>>
    /\ UNCHANGED <<parserVars, feedVars, sideVars, refVars, transportVars>>

\* device.gatt.connect() resolves: the link is established
GattConnectResolved ==
    /\ BagIn(ConnectTask("gattConnect"), tasks)
    /\ linkUp' = TRUE
    /\ tasks' = Advance(ConnectTask("gattConnect"), ConnectTask("getPrimaryService"))
    /\ UNCHANGED <<notifying, listeners, hasReadable, stream, written>>
    /\ UNCHANGED <<parserVars, feedVars, sideVars, uiVars, refVars>>

\* server.getPrimaryService(SPP_SERVICE_UUID) resolves
GetPrimaryServiceResolved ==
    /\ BagIn(ConnectTask("getPrimaryService"), tasks)
    /\ linkUp
    /\ tasks' = Advance(ConnectTask("getPrimaryService"), ConnectTask("getCharacteristic"))
    /\ UNCHANGED <<parserVars, feedVars, sideVars, uiVars, refVars, transportVars>>

\* service.getCharacteristic(SPP_DATA_CHARACTERISTIC_UUID) resolves; the
\* handler stores the characteristic and calls startNotifications()
GetCharacteristicResolved ==
    /\ BagIn(ConnectTask("getCharacteristic"), tasks)
    /\ linkUp
    /\ characteristicRef' = "characteristic"
    /\ tasks' = Advance(ConnectTask("getCharacteristic"), ConnectTask("startNotifications"))
    /\ UNCHANGED readerRef
    /\ UNCHANGED <<parserVars, feedVars, sideVars, uiVars, transportVars>>

\* startReading(characteristic) up to its first await: it returns when the
\* characteristic has no readable stream, and getReader() throws on a locked
\* stream, which its catch swallows
StartReading(t) ==
    IF hasReadable /\ stream = "unlocked"
    THEN /\ readerRef' = "reader"
         /\ stream' = "locked"
         /\ tasks' = Advance(t, ReadTask)
         /\ UNCHANGED characteristicRef
    ELSE /\ tasks' = Retire(t)
         /\ UNCHANGED <<refVars, stream>>

\* characteristic.startNotifications() resolves: the listener is added, the
\* session is Connected and reading starts
StartNotificationsResolved ==
    /\ BagIn(ConnectTask("startNotifications"), tasks)
    /\ linkUp
    /\ listeners < MaxListeners
    /\ notifying' = TRUE
    /\ listeners' = listeners + 1
    /\ connected' = TRUE
    /\ connectionStatus' = "Connected"
    /\ currentMode' = "stop"
    /\ StartReading(ConnectTask("startNotifications"))
    /\ UNCHANGED <<error, autoShutoffEnabled, motorState, linkUp, hasReadable, written>>
    /\ UNCHANGED <<parserVars, feedVars, sideVars>>

\* The rejection the transport gives at each awaited step
RejectionOf(pc) == IF pc = "requestDevice" THEN NotFoundError ELSE NetworkError

\* An awaited step of connectBluetooth rejects: its catch block
ConnectFailed(t) ==
    /\ BagIn(t, tasks)
    /\ t.op = "connect"
    /\ error' = RejectionOf(t.pc)
    /\ connectionStatus' = "Disconnected"
    /\ connected' = FALSE
    /\ tasks' = Retire(t)
    /\ UNCHANGED <<currentMode, autoShutoffEnabled, motorState>>
    /\ UNCHANGED <<parserVars, feedVars, sideVars, refVars, transportVars>>

\* ---- inbound data ----

\* handleCharacteristicChange(event) of one listener
handleCharacteristicChange(buf, state, value) == Dispatch(1, buf, state, value)

\* The peripheral notifies value: a 'characteristicvaluechanged' event is
\* dispatched to every listener attached to the characteristic
CharacteristicValueChanged(value) ==
    LET r == Dispatch(listeners, buffer, motorState, value)
    IN  /\ linkUp
        /\ notifying
        /\ listeners > 0
        /\ Len(r.buffer) <= MaxBuffer
        /\ buffer' = r.buffer
        /\ motorState' = r.motorState
        /\ UNCHANGED <<connected, connectionStatus, error, currentMode,
                       autoShutoffEnabled>>
        /\ UNCHANGED <<feedVars, sideVars, refVars, tasks, transportVars>>

\* reader.read() of the loop of startReading resolves with a value
ReadResolved(value) ==
    LET r == handleCharacteristicChange(buffer, motorState, value)
    IN  /\ BagIn(ReadTask, tasks)
        /\ linkUp
        /\ stream = "locked"
        /\ Len(r.buffer) <= MaxBuffer
        /\ buffer' = r.buffer
        /\ motorState' = r.motorState
        /\ UNCHANGED <<connected, connectionStatus, error, currentMode,
                       autoShutoffEnabled>>
        /\ UNCHANGED <<feedVars, sideVars, refVars, tasks, transportVars>>

\* reader.read() resolves with done after the reader was cancelled: break
ReadDone ==
    /\ BagIn(ReadTask, tasks)
    /\ stream = "cancelled"
    /\ tasks' = Retire(ReadTask)
    /\ UNCHANGED <<parserVars, feedVars, sideVars, uiVars, refVars, transportVars>>

\* ---- outbound commands ----

\* The wire tokens of setMotorMode and toggleAutoShutoff
CommandOfMode(mode) ==
    CASE mode = "stop" -> "M0"
      [] mode = "low" -> "M10"
      [] mode = "high" -> "M20"

CommandOfAutoShutoff(newState) == IF newState THEN "AOFF1" ELSE "AOFF0"

\* A guard that looks at the characteristic only; SendGating does not hold
\* of it
SendRejectedNoPhase == characteristicRef = NoRef

\* The guard of sendCommand
SendRejected == characteristicRef = NoRef \/ ~connected

\* A sendCommand that writes the token without its terminator;
\* OutboundFraming does not hold of it
sendCommandUnframed(command, accepted) ==
    IF SendRejected
    THEN /\ error' = NotConnectedMessage
         /\ UNCHANGED written
    ELSE /\ written' = TextEncode(command)
         /\ error' = IF accepted THEN error ELSE NetworkError

\* A sendCommand that calls writeValue again when the transport has rejected
\* the write; WriteRejectionSurfaced does not hold of it
sendCommandRetrying(command, accepted) ==
    IF SendRejected
    THEN /\ error' = NotConnectedMessage
         /\ UNCHANGED written
    ELSE /\ written' = IF accepted THEN TextEncode(command \o "\n")
                        ELSE TextEncode(command \o "\n") \o TextEncode(command \o "\n")
         /\ error' = IF accepted THEN error ELSE NetworkError

\* sendCommand(command): the guard, then writeValue(data), whose promise the
\* transport resolves (accepted) or rejects
sendCommand(command, accepted) ==
    IF SendRejected
    THEN /\ error' = NotConnectedMessage
         /\ UNCHANGED written
    ELSE /\ written' = TextEncode(command \o "\n")
         /\ error' = IF accepted THEN error ELSE NetworkError

\* Whether the transport can accept a write
CanAccept(accepted) == accepted => linkUp

\* setMotorMode(mode)
SetMotorMode(mode, accepted) ==
    /\ CanAccept(accepted)
    /\ currentMode' = mode
    /\ sendCommand(CommandOfMode(mode), accepted)
    /\ UNCHANGED <<connected, connectionStatus, autoShutoffEnabled, motorState>>
    /\ UNCHANGED <<parserVars, feedVars, sideVars, refVars, tasks>>
    /\ UNCHANGED <<linkUp, notifying, listeners, hasReadable, stream>>

\* toggleAutoShutoff(): sendCommand never throws, so setAutoShutoffEnabled
\* runs whenever sendCommand has returned
ToggleAutoShutoff(accepted) ==
    LET newState == ~autoShutoffEnabled
    IN  /\ CanAccept(accepted)
        /\ sendCommand(CommandOfAutoShutoff(newState), accepted)
        /\ autoShutoffEnabled' = newState
        /\ UNCHANGED <<connected, connectionStatus, currentMode, motorState>>
        /\ UNCHANGED <<parserVars, feedVars, sideVars, refVars, tasks>>
        /\ UNCHANGED <<linkUp, notifying, listeners, hasReadable, stream>>

\* ---- disconnectBluetooth ----

\* The last block of the try of disconnectBluetooth
FinishDisconnect ==
    /\ connected' = FALSE
    /\ connectionStatus' = "Disconnected"
    /\ characteristicRef' = NoRef
    /\ readerRef' = NoRef
    /\ buffer' = Reset

\* disconnectBluetooth after the reader was cancelled; rest is the bag of the
\* other suspended handlers.  (abortControllerRef is only ever written: its
\* signal is handed to nothing, so abort() has no effect and it is left out.)
AfterCancel(rest) ==
    IF characteristicRef # NoRef
    THEN /\ tasks' = rest (+) SetToBag({DisconnectTask("stopNotifications")})
         /\ UNCHANGED <<connected, connectionStatus, characteristicRef, readerRef,
                        buffer>>
    ELSE /\ tasks' = rest
         /\ FinishDisconnect

\* The Disconnect button (rendered while connected) is clicked
DisconnectBluetooth ==
    /\ connected
    /\ PendingCount < MaxPending
    /\ IF readerRef # NoRef
       THEN /\ stream' = IF stream = "locked" THEN "cancelled" ELSE stream
            /\ tasks' = Spawn(DisconnectTask("cancel"))
            /\ UNCHANGED <<connected, connectionStatus, refVars, buffer>>
       ELSE /\ AfterCancel(tasks)
            /\ UNCHANGED stream
    /\ UNCHANGED <<error, currentMode, autoShutoffEnabled, motorState>>
    /\ UNCHANGED <<feedVars, sideVars, linkUp, notifying, listeners, hasReadable, written>>

\* readerRef.current.cancel() resolves
CancelResolved ==
    /\ BagIn(DisconnectTask("cancel"), tasks)
    /\ AfterCancel(Retire(DisconnectTask("cancel")))
    /\ UNCHANGED <<error, currentMode, autoShutoffEnabled, motorState>>
    /\ UNCHANGED <<feedVars, sideVars, transportVars>>

\* characteristicRef.current.stopNotifications() resolves
StopNotificationsResolved ==
    /\ BagIn(DisconnectTask("stopNotifications"), tasks)
    /\ linkUp
    /\ notifying' = FALSE
    /\ tasks' = Retire(DisconnectTask("stopNotifications"))
    /\ FinishDisconnect
    /\ UNCHANGED <<error, currentMode, autoShutoffEnabled, motorState>>
    /\ UNCHANGED <<feedVars, sideVars, linkUp, listeners, hasReadable, stream, written>>

\* An awaited step of disconnectBluetooth rejects: its catch block only logs
DisconnectFailed(t) ==
    /\ BagIn(t, tasks)
    /\ t.op = "disconnect"
    /\ tasks' = Retire(t)
    /\ UNCHANGED <<parserVars, feedVars, sideVars, uiVars, refVars, transportVars>>

\* ---- the transport ----

\* The link to the peripheral is lost.  The component registers no listener
\* for it.  The characteristic object and its stream become invalid (a later
\* getCharacteristic gives a new object), a pending read() rejects and the
\* loop of startReading ends in its catch.
LinkLoss ==
    /\ linkUp
    /\ linkUp' = FALSE
    /\ notifying' = FALSE
    /\ listeners' = 0
    /\ stream' = "unlocked"
    /\ tasks' = [t \in Pending \ {ReadTask} |-> CopiesIn(t, tasks)]
    /\ UNCHANGED <<parserVars, feedVars, sideVars, uiVars, refVars, hasReadable, written>>

Modes == {"stop", "low", "high"}

\* The steps of connectBluetooth
ConnectSteps ==
    \/ ConnectBluetooth
    \/ RequestDeviceResolved
    \/ GattConnectResolved
    \/ GetPrimaryServiceResolved
    \/ GetCharacteristicResolved
    \/ StartNotificationsResolved
    \/ \E t \in Pending : ConnectFailed(t)

\* The steps of every send
SendSteps ==
    \/ \E mode \in Modes, accepted \in BOOLEAN : SetMotorMode(mode, accepted)
    \/ \E accepted \in BOOLEAN : ToggleAutoShutoff(accepted)

\* The steps that deliver a chunk
InboundSteps ==
    \/ \E value \in Chunks : CharacteristicValueChanged(value)
    \/ \E value \in Chunks : ReadResolved(value)

\* The session and its inbound path.  The handlers of the inbound path read
\* and write only the parser and motorState.
Next ==
    \/ ConnectSteps
    \/ InboundSteps
    \/ ReadDone
    \/ DisconnectBluetooth
    \/ CancelResolved
    \/ StopNotificationsResolved
    \/ \E t \in Pending : DisconnectFailed(t)
    \/ LinkLoss

Spec == Init /\ [][Next]_vars

\* The session and its outbound path, on a characteristic without the
\* optional readable stream (Web Bluetooth defines none).  sendCommand reads
\* only connected and characteristicRef; a notification that ends in the
\* middle of a line leaves text in the decoder buffer.
InitCommands ==
    /\ buffer = ""
    /\ input = <<>>
    /\ fed = 0
    /\ frames = <<>>
    /\ hasReadable = FALSE
    /\ SessionInit
    /\ ServiceInit

NextCommands ==
    \/ ConnectSteps
    \/ SendSteps
    \/ DisconnectBluetooth
    \/ StopNotificationsResolved
    \/ \E t \in Pending : DisconnectFailed(t)
    \/ LinkLoss
    \/ CharacteristicValueChanged(PartialChunk)

SpecCommands == InitCommands /\ [][NextCommands]_vars

-----------------------------------------------------------------------------
(* The decoder with reset(): the caller may reset between two chunks, and
   collects the records of the chunks fed since *)

ResetStreams ==
    {"Motor: Idle\nMotor: Error Speed: 0 Anomaly: 95%\n",
     "Motor: Error Speed: 0 Anomaly: 95%\nMotor: Idle\n"}

InitReset ==
    /\ buffer = ""
    /\ input \in {TextEncode(st) : st \in ResetStreams}
    /\ fed = 0
    /\ frames = <<>>
    /\ hasReadable = FALSE
    /\ SessionInit
    /\ ServiceInit

\* reset() after the first fed bytes of the stream: input becomes the bytes
\* still to come and frames the records since the reset
ResetParser ==
    /\ buffer' = Reset
    /\ input' = SubSeq(input, fed + 1, Len(input))
    /\ fed' = 0
    /\ frames' = <<>>
    /\ UNCHANGED <<sessionVars, sideVars>>

NextReset ==
    \/ \E n \in 0..Len(input) : FeedChunk(n)
    \/ ResetParser

SpecReset == InitReset /\ [][NextReset]_vars

-----------------------------------------------------------------------------
(* The debug console log: addDebugMessage and clearDebugMessages *)

\* prev.slice(-99) keeps the last 99 messages
KeptMessages == 99

\* Calls of addDebugMessage modelled since the last clear, and how many
\* received messages the log may hold among the sent ones
MaxMessages == 102
MaxReceived == 1

MessageTypes == {"sent", "received"}

\* Array.prototype.slice(-k): the last k elements, all of them when there
\* are fewer
SliceLast(s, k) == IF Len(s) <= k THEN s ELSE SubSeq(s, Len(s) - k + 1, Len(s))

\* An updater that keeps 100 messages before it appends; BoundedLog does not
\* hold of it
AppendKeepingAll(prev, message) == SliceLast(prev, KeptMessages + 1) \o <<message>>

\* The updater of setDebugMessages in addDebugMessage
AppendMessage(prev, message) == SliceLast(prev, KeptMessages) \o <<message>>

\* The received messages of a log
ReceivedIn(log) == Cardinality({i \in 1..Len(log) : log[i].type = "received"})

\* addDebugMessage(type, data): the message takes the id of the counter,
\* which is incremented
AddDebugMessage(type) ==
    /\ debugMessageIdRef < MaxMessages
    /\ type = "received" => ReceivedIn(debugMessages) < MaxReceived
    /\ debugMessages' = AppendMessage(debugMessages, [id |-> debugMessageIdRef, type |-> type])
    /\ debugMessageIdRef' = debugMessageIdRef + 1
    /\ UNCHANGED <<parserVars, feedVars, serviceVars>>
    /\ UNCHANGED <<connected, connectionStatus, error, currentMode, autoShutoffEnabled,
                   motorState, refVars, tasks, transportVars>>

\* A clear that resets the id counter and leaves the messages; UniqueIds does
\* not hold of it
ClearCounterOnly ==
    /\ debugMessageIdRef' = 0
    /\ UNCHANGED debugMessages
    /\ UNCHANGED <<parserVars, feedVars, serviceVars>>
    /\ UNCHANGED <<connected, connectionStatus, error, currentMode, autoShutoffEnabled,
                   motorState, refVars, tasks, transportVars>>

\* clearDebugMessages()
ClearDebugMessages ==
    /\ debugMessages' = <<>>
    /\ debugMessageIdRef' = 0
    /\ UNCHANGED <<parserVars, feedVars, serviceVars>>
    /\ UNCHANGED <<connected, connectionStatus, error, currentMode, autoShutoffEnabled,
                   motorState, refVars, tasks, transportVars>>

NextLog ==
    \/ \E type \in MessageTypes : AddDebugMessage(type)
    \/ ClearDebugMessages

SpecLog == InitCommands /\ [][NextLog]_vars

-----------------------------------------------------------------------------
(* NativeBluetoothService behind its ipcMain handlers (setupBluetoothIPC).
   Each action is one handler: the service method and the try / catch that
   turns its outcome into the result object returned to the renderer. *)

\* The device that the timer of startScan reports, and an id that no scan
\* reports
MockDevice == "mock-device-001"
DeviceIds == {MockDevice, "unknown-device"}

\* setTimeout callbacks that may be pending at once
MaxTimers == 3

\* The result objects of the handlers
Success == [success |-> TRUE]
SuccessDevices(devices) == [success |-> TRUE, devices |-> devices]
SuccessData(data) == [success |-> TRUE, data |-> data]
\* A handler without its catch, whose promise rejects with the message;
\* HandlersSettle does not hold of it
Rejection(message) == [rejected |-> message]
Failure(message) == [success |-> FALSE, error |-> message]

\* A message that does not name the device; ConnectOnlyDiscovered does not
\* hold of it
DeviceNotFoundUnnamed(deviceId) == "Device not found"

NotConnectedToAnyDevice == "Not connected to any device"
DeviceNotFound(deviceId) == "Device " \o deviceId \o " not found"

\* A guard that never throws; NotConnectedFails does not hold of it
NeverNotConnected == FALSE

\* if (!this.connectedDevice) of writeCharacteristic, readCharacteristic and
\* subscribeToNotifications
NotConnected == connectedDevice = NoDevice

ServiceFrame == UNCHANGED <<parserVars, feedVars, sessionVars, logVars, handlers>>

\* The channels that setupBluetoothIPC registers, and the ones that the
\* preload script invokes for the renderer
SetupChannels ==
    {"bluetooth:start-scan", "bluetooth:stop-scan", "bluetooth:get-devices",
     "bluetooth:connect", "bluetooth:disconnect", "bluetooth:write-characteristic",
     "bluetooth:read-characteristic", "bluetooth:subscribe-notifications"}
PreloadChannels == {"bluetooth:get-platform", "bluetooth:request-device"}

\* process.platform
Platforms == {"darwin", "win32", "linux"}

Handled(channel) == channel \in handlers

\* app.on('ready'): setupBluetoothIPC() and createWindow() have run
WindowCreated == SetupChannels \subseteq handlers

\* What ipcRenderer.invoke gives on a channel without a handler: the promise
\* rejects
NoHandler(channel) == [rejected |-> "No handler registered for '" \o channel \o "'"]

\* The 'ready' event of the app
AppReady ==
    /\ ~WindowCreated
    /\ handlers' = handlers \cup SetupChannels
    /\ UNCHANGED <<isScanning, connectedDevice, discoveredDevices, timers, reply>>
    /\ UNCHANGED <<parserVars, feedVars, sessionVars, logVars>>

\* window.electronAPI.getPlatform() and window.electronAPI.requestDevice(options)
\* of the preload script, called by the renderer
Invoke(channel) ==
    /\ WindowCreated
    /\ IF Handled(channel)
       THEN \E platform \in Platforms : reply' = [value |-> platform]
       ELSE reply' = NoHandler(channel)
    /\ UNCHANGED <<isScanning, connectedDevice, discoveredDevices, timers>>
    /\ ServiceFrame

\* A startScan without its guard, which starts over when a scan is in
\* progress; ScanGuarded does not hold of it
StartScanAgain ==
    /\ Handled("bluetooth:start-scan")
    /\ timers < MaxTimers
    /\ isScanning' = TRUE
    /\ discoveredDevices' = {}
    /\ timers' = timers + 1
    /\ reply' = Success
    /\ UNCHANGED connectedDevice
    /\ ServiceFrame

\* bluetooth:start-scan
StartScan ==
    /\ Handled("bluetooth:start-scan")
    /\ isScanning \/ timers < MaxTimers
    /\ IF isScanning
       THEN UNCHANGED <<isScanning, discoveredDevices, timers>>
       ELSE /\ isScanning' = TRUE
            /\ discoveredDevices' = {}
            /\ timers' = timers + 1
    /\ reply' = Success
    /\ UNCHANGED connectedDevice
    /\ ServiceFrame

\* The callback of the setTimeout of startScan: onDeviceDiscovered
DiscoveryTimer ==
    /\ timers > 0
    /\ timers' = timers - 1
    /\ discoveredDevices' = discoveredDevices \cup {MockDevice}
    /\ UNCHANGED <<isScanning, connectedDevice, reply>>
    /\ ServiceFrame

\* bluetooth:stop-scan
StopScan ==
    /\ Handled("bluetooth:stop-scan")
    /\ isScanning' = FALSE
    /\ reply' = Success
    /\ UNCHANGED <<connectedDevice, discoveredDevices, timers>>
    /\ ServiceFrame

\* bluetooth:get-devices
GetDevices ==
    /\ Handled("bluetooth:get-devices")
    /\ reply' = SuccessDevices(discoveredDevices)
    /\ UNCHANGED <<isScanning, connectedDevice, discoveredDevices, timers>>
    /\ ServiceFrame

\* bluetooth:connect
Connect(deviceId) ==
    /\ Handled("bluetooth:connect")
    /\ IF deviceId \notin discoveredDevices
       THEN /\ reply' = Failure(DeviceNotFound(deviceId))
            /\ UNCHANGED connectedDevice
       ELSE /\ connectedDevice' = deviceId
            /\ reply' = Success
    /\ UNCHANGED <<isScanning, discoveredDevices, timers>>
    /\ ServiceFrame

\* bluetooth:disconnect
Disconnect ==
    /\ Handled("bluetooth:disconnect")
    /\ connectedDevice' = NoDevice
    /\ reply' = Success
    /\ UNCHANGED <<isScanning, discoveredDevices, timers>>
    /\ ServiceFrame

\* bluetooth:write-characteristic
WriteCharacteristic ==
    /\ Handled("bluetooth:write-characteristic")
    /\ reply' = IF NotConnected THEN Failure(NotConnectedToAnyDevice) ELSE Success
    /\ UNCHANGED <<isScanning, connectedDevice, discoveredDevices, timers>>
    /\ ServiceFrame

\* bluetooth:read-characteristic: the placeholder returns Buffer.alloc(0)
ReadCharacteristic ==
    /\ Handled("bluetooth:read-characteristic")
    /\ reply' = IF NotConnected THEN Failure(NotConnectedToAnyDevice) ELSE SuccessData(<<>>)
    /\ UNCHANGED <<isScanning, connectedDevice, discoveredDevices, timers>>
    /\ ServiceFrame

\* bluetooth:subscribe-notifications
SubscribeToNotifications ==
    /\ Handled("bluetooth:subscribe-notifications")
    /\ reply' = IF NotConnected THEN Failure(NotConnectedToAnyDevice) ELSE Success
    /\ UNCHANGED <<isScanning, connectedDevice, discoveredDevices, timers>>
    /\ ServiceFrame

NextService ==
    \/ AppReady
    \/ \E channel \in PreloadChannels : Invoke(channel)
    \/ StartScan
    \/ DiscoveryTimer
    \/ StopScan
    \/ GetDevices
    \/ \E deviceId \in DeviceIds : Connect(deviceId)
    \/ Disconnect
    \/ WriteCharacteristic
    \/ ReadCharacteristic
    \/ SubscribeToNotifications

SpecService == InitCommands /\ [][NextService]_vars

-----------------------------------------------------------------------------
(* Properties *)

\* C1: feeding a stream in chunks, wherever it is cut (in the middle of a
\* line and with empty chunks too), returns over all the feeds the records
\* that one feed of the whole stream returns, and leaves the same buffer.
FragmentationInvariance ==
    frames = Feed("", SubSeq(input, 1, fed)).frames
        /\ buffer = Feed("", SubSeq(input, 1, fed)).buffer

\* C1: a stream was cut inside its second line: one record is out and a
\* partial line is pending
FragmentationWitness ==
    fed < Len(input) /\ Len(frames) = 1 /\ buffer # "" /\ buffer \notin WireLines

\* C2: a command reaches the transport only in a step of a send made while
\* the session is connected and holds the characteristic; a send made while
\* the session is not connected writes nothing and reports 'Not connected to
\* device'.
SendGating ==
    [][/\ written' # written =>
            SendSteps /\ connected /\ characteristicRef # NoRef
       /\ SendSteps /\ ~connected =>
            written' = written /\ error' = NotConnectedMessage]_vars

\* C2: a command was written during a connection, and a send after that
\* connection was rejected
SendGatingWitness ==
    ~connected /\ error = NotConnectedMessage /\ written # <<>>

\* The bytes of the five commands: M0, M10, M20, AOFF1, AOFF0, each followed
\* by one line feed
FrameM0 == <<77, 48, 10>>
FrameM10 == <<77, 49, 48, 10>>
FrameM20 == <<77, 50, 48, 10>>
FrameAOFF1 == <<65, 79, 70, 70, 49, 10>>
FrameAOFF0 == <<65, 79, 70, 70, 48, 10>>

\* C3: what a send writes is the token of the command followed by exactly
\* one line feed, and the tokens are M0 for stop, M10 for low, M20 for high,
\* AOFF1 for enabling and AOFF0 for disabling the automatic shutoff.
OutboundFraming ==
    [][/\ written' \in {<<>>, FrameM0, FrameM10, FrameM20, FrameAOFF1, FrameAOFF0}
       /\ \A accepted \in BOOLEAN :
            /\ SetMotorMode("stop", accepted) /\ ~SendRejected => written' = FrameM0
            /\ SetMotorMode("low", accepted) /\ ~SendRejected => written' = FrameM10
            /\ SetMotorMode("high", accepted) /\ ~SendRejected => written' = FrameM20
            /\ ToggleAutoShutoff(accepted) /\ ~SendRejected =>
                 written' = IF autoShutoffEnabled THEN FrameAOFF0 ELSE FrameAOFF1]_vars

\* C3: the automatic shutoff was enabled and then disabled during a
\* connection in the high mode
OutboundFramingWitness ==
    connected /\ currentMode = "high" /\ ~autoShutoffEnabled /\ written = FrameAOFF0

\* C4: a chunk delivered while the session is not connected changes neither
\* the decoder buffer nor the telemetry shown.
LateChunksDiscarded ==
    [][InboundSteps /\ ~connected => UNCHANGED <<buffer, motorState>>]_vars

\* C5: when the session becomes connected the decoder buffer is empty.
NoCrossConnectionLeak ==
    [][~connected /\ connected' => buffer' = ""]_vars

\* The steps in which a run of disconnectBluetooth ends
DisconnectEnds ==
    \/ DisconnectBluetooth /\ readerRef = NoRef /\ characteristicRef = NoRef
    \/ CancelResolved /\ characteristicRef = NoRef
    \/ StopNotificationsResolved
    \/ \E t \in Pending : DisconnectFailed(t)

\* C6: a disconnect requested while connected ends with the session
\* disconnected and the decoder buffer reset, also when a teardown step
\* fails; and the session never shows as disconnected while the buffer holds
\* data.
DisconnectSettles ==
    [][/\ DisconnectEnds => ~connected' /\ buffer' = ""
       /\ Phase' = "Disconnected" => buffer' = ""]_vars

\* C7: when the link is lost while the session is connected, the session
\* becomes disconnected and the decoder buffer is reset.
LinkLossSettles ==
    [][LinkLoss /\ connected => ~connected' /\ buffer' = ""]_vars

\* C8: a failed step of a connect attempt ends the attempt with the session
\* not connected, the cause in error, the decoder empty and no other attempt
\* started.
ConnectFailureSettles ==
    [][\A t \in Pending : ConnectFailed(t) =>
            /\ ~connected'
            /\ error' = RejectionOf(t.pc)
            /\ buffer' = ""
            /\ ConnectsInFlight' = ConnectsInFlight - 1]_vars

\* C9: the session leaves Disconnected for Connecting, and a connect attempt
\* comes into being, only in the step of a connect request of the caller.
NoAutomaticReconnection ==
    [][(Phase = "Disconnected" /\ Phase' = "Connecting")
           \/ ConnectsInFlight' > ConnectsInFlight
       => ConnectBluetooth]_vars

\* C10: at most one connection is being made or held, and at most one
\* notification handler is attached to the characteristic.
SingleConnection ==
    /\ ConnectsInFlight + (IF connected THEN 1 ELSE 0) <= 1
    /\ listeners <= 1

\* Complete lines that fail validation: no pattern, an empty line, a status
\* that is no keyword, a speed out of range
MalformedLines ==
    {"garbage",
     "",
     "Motor: Idle  Speed: 1.00 Anomaly: 5%",
     "Motor: Running  Speed: 99.00 Anomaly: 5%"}

\* What of the stream is still to be fed
Rest == SubSeq(input, fed + 1, Len(input))

ParsedFields == {f \in Fields : fed > 0 /\ LineTable[f] = input}

\* C12: every record that parseTelemetry or feed returns has a status of
\* Running, Stop or Error, a speed within [0, 25], a whole percentage within
\* [0, 100] and the flag anomalyDetected equal to percentage > 50.
RecordValidity ==
    \A i \in 1..Len(frames) :
        /\ frames[i].status \in {"Running", "Stop", "Error"}
        /\ frames[i].speed.d > 0
        /\ 0 <= frames[i].speed.n
        /\ frames[i].speed.n <= 25 * frames[i].speed.d
        /\ frames[i].anomalyPercentage \in 0..100
        /\ frames[i].anomalyDetected = (frames[i].anomalyPercentage > 50)

\* C12: a record at the upper end of both ranges was returned
RecordValidityWitness ==
    /\ fed > 0
    /\ Len(frames) = 1
    /\ frames[1].speed = [n |-> 25, d |-> 1]
    /\ frames[1].anomalyPercentage = 100

\* The numbers that the percentage tokens stand for
PercentValue == [t \in PercentTokens |->
                    CASE t = "0" -> 0 [] t = "50" -> 50 [] t = "51" -> 51
                      [] t = "100" -> 100 [] t = "101" -> 101]

\* C13: the flag of a record is true exactly when its percentage is above
\* 50: Anomaly: 50% gives false, Anomaly: 51% gives true.
ThresholdExactness ==
    \A f \in ParsedFields :
        frames # <<>> =>
            /\ frames[1].anomalyPercentage = PercentValue[f[3]]
            /\ frames[1].anomalyDetected = (PercentValue[f[3]] > 50)
            /\ f[3] = "50" => ~frames[1].anomalyDetected
            /\ f[3] = "51" => frames[1].anomalyDetected

\* C13: a line with Anomaly: 50% was parsed into a record
ThresholdWitness ==
    /\ \E f \in ParsedFields : f[3] = "50"
    /\ frames # <<>>
    /\ ~frames[1].anomalyDetected

\* The keyword that a status token spells when the letter case is ignored
CanonicalStatus == [t \in StatusTokens |->
                       CASE t \in {"Running", "running"} -> "Running"
                         [] t \in {"Stop", "STOP"} -> "Stop"
                         [] t \in {"Error", "eRRor"} -> "Error"
                         [] OTHER -> "none"]

\* The speed and percentage tokens that are in range
SpeedTokensInRange == {"0.00", "10", "15.50", "25"}
PercentTokensInRange == {"0", "50", "51", "100"}

\* C14: a line whose status spells a keyword in any letter case, with speed
\* and percentage in range, yields one record with the keyword in its
\* canonical case.
StatusCaseInsensitive ==
    \A f \in ParsedFields :
        /\ CanonicalStatus[f[1]] # "none"
        /\ f[2] \in SpeedTokensInRange
        /\ f[3] \in PercentTokensInRange
        => /\ Len(frames) = 1
           /\ frames[1].status = CanonicalStatus[f[1]]

\* The numbers that the speed tokens in range stand for
SpeedValue == [t \in SpeedTokensInRange |->
                  CASE t = "0.00" -> [n |-> 0, d |-> 1]
                    [] t = "10" -> [n |-> 10, d |-> 1]
                    [] t = "15.50" -> [n |-> 155, d |-> 10]
                    [] t = "25" -> [n |-> 25, d |-> 1]]

\* C15: a line is rejected when the pattern does not match it, when its
\* status is none of the three keywords, when its speed token is no number
\* within [0, 25] or when its percentage is no whole number within [0, 100];
\* a line of the wire format with one or more spaces between the fields and
\* its three fields in range is accepted with these fields.
LineValidation ==
    /\ fed > 0 /\ input \in {TextEncode(l) : l \in UnmatchedLines} => frames = <<>>
    /\ \A f \in ParsedFields :
          IF /\ f[1] \in {"Running", "Stop", "Error"}
             /\ f[2] \in SpeedTokensInRange
             /\ f[3] \in PercentTokensInRange
          THEN /\ Len(frames) = 1
               /\ frames[1].status = f[1]
               /\ frames[1].speed = SpeedValue[f[2]]
               /\ frames[1].anomalyPercentage = PercentValue[f[3]]
          ELSE frames = <<>>

\* C16: the records of a chunk are applied in the order in which their
\* lines end, so after a chunk the telemetry shown is that of the last valid
\* line the chunk ended, and it is unchanged when the chunk ended none.
LatestTelemetryShown ==
    [][\A value \in Chunks :
          CharacteristicValueChanged(value) =>
              motorState' = ApplyFrames(motorState, Feed(buffer, value).frames)]_vars

\* The index of the last line feed of s at or before i, 0 when there is none
RECURSIVE LastNewline(_, _)
LastNewline(s, i) ==
    IF i = 0 THEN 0
    ELSE IF CharAt(s, i) = "\n" THEN i
    ELSE LastNewline(s, i - 1)

\* The text after the last line feed of s, all of s when it has none
AfterLastNewline(s) == SubSeq(s, LastNewline(s, Len(s)) + 1, Len(s))

\* C17: after every feed the buffer is the text after the last line feed of
\* what was fed (the buffer before followed by the chunk), all of it when it
\* has no line feed; so the buffer holds no line feed.
BufferInvariant ==
    /\ buffer = AfterLastNewline(TextDecode(SubSeq(input, 1, fed)))
    /\ \A i \in 1..Len(buffer) : CharAt(buffer, i) # "\n"

\* C17: the buffer held a partial line and a chunk with a line feed has
\* replaced it by a shorter one
BufferInvariantWitness ==
    /\ Len(frames) = 1
    /\ buffer # ""
    /\ Len(buffer) < 5
    /\ fed > Len(buffer) + 1


\* C18: reset leaves an empty buffer whatever it held, a second reset changes
\* nothing, and the records and the buffer after a reset are those of a new
\* parser fed the chunks that came after the reset.
ResetDiscards ==
    /\ [](LET fresh == Feed("", SubSeq(input, 1, fed))
          IN  frames = fresh.frames /\ buffer = fresh.buffer)
    /\ [][ResetParser => /\ buffer' = ""
                         /\ (buffer = "" /\ fed = 0 /\ frames = <<>> => input' = input)]_vars

\* C18: the parser was reset in the middle of a line, then fed the rest of
\* that line, and returned no record for it
ResetWitness ==
    /\ input = TextEncode("rror Speed: 0 Anomaly: 95%\nMotor: Idle\n")
    /\ fed = 27
    /\ buffer = ""
    /\ frames = <<>>


\* C19: a send rejected by the guard of sendCommand sets the error and leaves
\* the phase, the characteristic and the decoder buffer as they were, and a
\* send in phase Connected is not rejected by the guard.
RejectedSendNotFatal ==
    [][/\ SendSteps /\ SendRejected =>
            /\ error' = NotConnectedMessage
            /\ UNCHANGED <<connected, connectionStatus, characteristicRef, buffer>>
       /\ SendSteps /\ connected /\ connectionStatus = "Connected" =>
            error' # NotConnectedMessage]_vars


\* C20: when the transport rejects the write of a send that passed the guard,
\* the error is the cause of the rejection, the command was handed to
\* writeValue once and no task is left to write it again, and the phase and
\* the decoder buffer are as they were.
WriteRejectionSurfaced ==
    [][/\ \A mode \in Modes :
            SetMotorMode(mode, FALSE) /\ ~SendRejected =>
                /\ error' = NetworkError
                /\ written' = TextEncode(CommandOfMode(mode) \o "\n")
                /\ UNCHANGED <<connected, connectionStatus, buffer, tasks>>
       /\ ToggleAutoShutoff(FALSE) /\ ~SendRejected =>
            /\ error' = NetworkError
            /\ written' = TextEncode(CommandOfAutoShutoff(~autoShutoffEnabled) \o "\n")
            /\ UNCHANGED <<connected, connectionStatus, buffer, tasks>>]_vars

\* C20: a write was rejected in phase Connected while the decoder held the
\* start of a line
WriteRejectionWitness ==
    /\ connected
    /\ connectionStatus = "Connected"
    /\ characteristicRef # NoRef
    /\ error = NetworkError
    /\ written = FrameM10
    /\ buffer = TextDecode(PartialChunk)


\* C21: a chunk notified in phase Connected is fed to the decoder once: the
\* buffer and the display after the event are those of one call of
\* handleCharacteristicChange.
ChunkFedOnce ==
    [][\A value \in Chunks :
          connected /\ CharacteristicValueChanged(value) =>
              /\ buffer' = handleCharacteristicChange(buffer, motorState, value).buffer
              /\ motorState' = handleCharacteristicChange(buffer, motorState, value).motorState]_vars


\* x <= y on decimal numbers
DecLeq(x, y) == x.n * y.d <= y.n * x.d

\* The record of a line with the speed token t
RecordOfSpeed(t) == parseTelemetry(LineOf("Stop", t, "0", " "))

\* C22: the rpm of every record is 60 / (2 pi) times the speed of the same
\* record (rpm times pi is 30 times the speed): speed 0 gives rpm 0, speed 10
\* gives an rpm between 95.48 and 95.50 (pi lies between 3.1415 and 3.1416),
\* and a record with a greater speed has no smaller rpm.
RpmDerivation ==
    \A i \in 1..Len(frames) :
        /\ frames[i].rpm.d > 0
        /\ frames[i].rpm.n * frames[i].speed.d = 30 * frames[i].speed.n * frames[i].rpm.d
        /\ frames[i].speed.n = 0 => frames[i].rpm.n = 0
        /\ frames[i].speed = [n |-> 10, d |-> 1] =>
               /\ frames[i].rpm.n * 1000000 >= 9548 * 31416 * frames[i].rpm.d
               /\ frames[i].rpm.n * 1000000 <= 9550 * 31415 * frames[i].rpm.d
        /\ \A t \in SpeedTokensInRange :
               /\ DecLeq(frames[i].speed, RecordOfSpeed(t).speed) =>
                      DecLeq(frames[i].rpm, RecordOfSpeed(t).rpm)
               /\ DecLeq(RecordOfSpeed(t).speed, frames[i].speed) =>
                      DecLeq(RecordOfSpeed(t).rpm, frames[i].rpm)

\* C22: a line with Speed: 10 was parsed into a record
RpmWitness ==
    /\ \E f \in ParsedFields : f[2] = "10"
    /\ Len(frames) = 1
    /\ frames[1].speed = [n |-> 10, d |-> 1]
    /\ frames[1].rpm = [n |-> 300, d |-> 1]


\* C23: a feedback line of the form of the README, Motor: <status>  Speed:
\* <speed_value> without an Anomaly field, is parsed into a record with that
\* status and speed.
ReadmeFeedbackParsed ==
    fed > 0 /\ input \in {TextEncode(l) : l \in ReadmeLines} =>
        /\ Len(frames) = 1
        /\ input = TextEncode("Motor: Running  Speed: 19.87") =>
               frames[1].status = "Running" /\ frames[1].speed = [n |-> 1987, d |-> 100]
        /\ input = TextEncode("Motor: Stop  Speed: 0.00") =>
               frames[1].status = "Stop" /\ frames[1].speed = [n |-> 0, d |-> 1]
        /\ input = TextEncode("Motor: Error  Speed: 0.00") =>
               frames[1].status = "Error" /\ frames[1].speed = [n |-> 0, d |-> 1]

\* C24: every record whose status is Error has the flag anomalyDetected set,
\* whatever its percentage.
ErrorStateFlagged ==
    \A i \in 1..Len(frames) : frames[i].status = "Error" => frames[i].anomalyDetected

\* C25: a line yields a record only when the whole trimmed line is one frame:
\* a line with text before Motor: or after the %, two frames on one line, or
\* a speed token that is no single decimal number yields none.
WholeLineValidated ==
    /\ fed > 0 /\ input \in {TextEncode(l) : l \in EmbeddedLines} => frames = <<>>
    /\ \A f \in ParsedFields : f[2] \in {".", "1.2.3"} => frames = <<>>


\* The number of line feeds among the bytes fed so far
TerminatorsFed == Cardinality({i \in 1..fed : input[i] = 10})

\* The records of the first k lines of the stream
RECURSIVE RecordsOfLines(_, _)
RecordsOfLines(lines, k) ==
    IF k = 0 THEN <<>>
    ELSE RecordsOfLines(lines, k - 1) \o Pushed(parseTelemetry(lines[k]))

\* C26: after every feed the records returned so far are those of the lines
\* whose line feed has been fed, one per valid line: text that no line feed
\* follows yet has given no record, and a line whose line feed was fed has
\* given its record in that call.
EmittedAtTerminator ==
    frames = RecordsOfLines(SplitLines(TextDecode(input)), TerminatorsFed)

\* C26: a whole valid line was fed without its line feed and no record is out
EmittedAtTerminatorWitness ==
    /\ buffer = "Motor: Running  Speed: 15.50 Anomaly: 5%"
    /\ fed = Len(buffer)
    /\ frames = <<>>


\* C27: feeding a chunk of length zero returns no record and leaves the
\* buffer as it is, whatever the buffer holds.
EmptyChunkNoOp ==
    /\ Feed(buffer, <<>>).frames = <<>>
    /\ Feed(buffer, <<>>).buffer = buffer

\* C27: text is pending, a whole valid line of it, when the empty chunk is fed
EmptyChunkWitness ==
    /\ buffer = "Motor: Error Speed: 0 Anomaly: 95%"
    /\ fed < Len(input)
    /\ frames = <<>>


\* C28: currentMode and autoShutoffEnabled change in a send only when the
\* transport accepted the command: a send that the guard rejects, or whose
\* write the transport rejects, leaves both as they were.
ControlStateFollowsCommands ==
    [][/\ \A mode \in Modes, accepted \in BOOLEAN :
            SetMotorMode(mode, accepted) /\ (SendRejected \/ ~accepted) =>
                UNCHANGED <<currentMode, autoShutoffEnabled>>
       /\ \A accepted \in BOOLEAN :
            ToggleAutoShutoff(accepted) /\ (SendRejected \/ ~accepted) =>
                UNCHANGED <<currentMode, autoShutoffEnabled>>]_vars


\* C29: the log holds at most 100 messages, the ones added last since the
\* log was cleared, in the order in which they were added; clearing empties
\* it.
BoundedLog ==
    /\ [](/\ Len(debugMessages) <= 100
          /\ Len(debugMessages) = IF debugMessageIdRef < 100 THEN debugMessageIdRef ELSE 100
          /\ \A i \in 1..Len(debugMessages) :
                debugMessages[i].id = debugMessageIdRef - Len(debugMessages) + i - 1)
    /\ [][ClearDebugMessages => debugMessages' = <<>>]_vars

\* C29: more than 100 messages were added and the oldest are gone
BoundedLogWitness ==
    /\ debugMessageIdRef = 102
    /\ Len(debugMessages) = 100
    /\ debugMessages[1].id = 2


\* C30: while connectedDevice is null, writeCharacteristic, readCharacteristic
\* and subscribeToNotifications leave the service as it is and their handler
\* returns success = false with 'Not connected to any device'.
NotConnectedFails ==
    [][connectedDevice = NoDevice
          /\ (WriteCharacteristic \/ ReadCharacteristic \/ SubscribeToNotifications) =>
              /\ reply' = [success |-> FALSE, error |-> "Not connected to any device"]
              /\ UNCHANGED <<isScanning, connectedDevice, discoveredDevices, timers>>]_vars

\* C30: a call made after a disconnect, with the device still in the list,
\* was refused
NotConnectedWitness ==
    /\ connectedDevice = NoDevice
    /\ MockDevice \in discoveredDevices
    /\ reply = [success |-> FALSE, error |-> "Not connected to any device"]


\* C31: connect(deviceId) sets connectedDevice to the device and succeeds
\* when the id is in discoveredDevices; for any other id it fails with
\* 'Device <id> not found' and leaves connectedDevice as it is.  So
\* connectedDevice only ever becomes a device of the list.
ConnectOnlyDiscovered ==
    [][/\ \A deviceId \in DeviceIds :
            Connect(deviceId) =>
                IF deviceId \in discoveredDevices
                THEN connectedDevice' = deviceId /\ reply' = [success |-> TRUE]
                ELSE /\ connectedDevice' = connectedDevice
                     /\ reply' = [success |-> FALSE,
                                  error |-> "Device " \o deviceId \o " not found"]
       /\ connectedDevice' # connectedDevice /\ connectedDevice' # NoDevice =>
            connectedDevice' \in discoveredDevices]_vars

\* C31: connected to the mock device, a new scan cleared the list, and a
\* connect to the same id was refused and left the connection as it was
ConnectOnlyDiscoveredWitness ==
    /\ connectedDevice = MockDevice
    /\ discoveredDevices = {}
    /\ reply = [success |-> FALSE, error |-> "Device mock-device-001 not found"]


\* C32: a device enters discoveredDevices only while a scan is in progress,
\* and when a scan starts no discovery of an earlier scan is still to come.
DiscoveryOnlyWhileScanning ==
    [][/\ discoveredDevices' # discoveredDevices /\ discoveredDevices' # {} => isScanning
       /\ StartScan /\ ~isScanning => timers = 0]_vars


\* C33: startScan during a scan changes nothing of the service and keeps
\* the devices; startScan when no scan is in progress sets isScanning and
\* clears the devices; isScanning falls only in stopScan; stopScan when no
\* scan is in progress changes nothing of the service.
ScanGuarded ==
    [][/\ StartScan /\ isScanning =>
            UNCHANGED <<isScanning, discoveredDevices, timers, connectedDevice>>
       /\ StartScan /\ ~isScanning => isScanning' /\ discoveredDevices' = {}
       /\ isScanning /\ ~isScanning' => StopScan
       /\ StopScan /\ ~isScanning =>
            UNCHANGED <<isScanning, discoveredDevices, timers, connectedDevice>>]_vars

\* C33: a scan is in progress with its device discovered and no discovery
\* to come, where a further startScan is answered with success
ScanGuardedWitness ==
    /\ isScanning
    /\ discoveredDevices = {MockDevice}
    /\ timers = 0
    /\ reply = [success |-> TRUE]


\* Whether a result object reports a failure with the message
Failed(result, message) ==
    /\ DOMAIN result = {"success", "error"}
    /\ result.success = FALSE
    /\ result.error = message

\* C34: every handler returns a result object: success = true when the
\* service operation completed, success = false with the message of the
\* error when it threw, in every state and for every argument.
HandlersSettle ==
    [][/\ StartScan \/ StopScan \/ Disconnect => reply' = [success |-> TRUE]
       /\ GetDevices =>
            reply' = [success |-> TRUE, devices |-> discoveredDevices]
       /\ \A deviceId \in DeviceIds :
            Connect(deviceId) =>
                IF deviceId \in discoveredDevices
                THEN reply' = [success |-> TRUE]
                ELSE Failed(reply', "Device " \o deviceId \o " not found")
       /\ WriteCharacteristic \/ SubscribeToNotifications =>
            IF connectedDevice # NoDevice
            THEN reply' = [success |-> TRUE]
            ELSE Failed(reply', "Not connected to any device")
       /\ ReadCharacteristic =>
            IF connectedDevice # NoDevice
            THEN reply' = [success |-> TRUE, data |-> <<>>]
            ELSE Failed(reply', "Not connected to any device")]_vars

\* C34: during a scan that has found its device, a connect to an id that
\* is not in the list was answered with a failure
HandlersSettleWitness ==
    /\ isScanning
    /\ discoveredDevices = {MockDevice}
    /\ reply = [success |-> FALSE, error |-> "Device unknown-device not found"]


\* C35: once the app is ready and the window is created, every channel that
\* the preload script invokes has a handler, and no call of electronAPI is
\* rejected for want of one.
PreloadChannelsHandled ==
    /\ [](WindowCreated => PreloadChannels \subseteq handlers)
    /\ [][\A channel \in PreloadChannels :
             Invoke(channel) => "rejected" \notin DOMAIN reply']_vars


\* C36: the ids of the messages in the log are pairwise distinct in every
\* state, whatever the order of the calls of addDebugMessage (sent and
\* received) and clearDebugMessages.
UniqueIds ==
    Cardinality({debugMessages[i].id : i \in 1..Len(debugMessages)}) = Len(debugMessages)

\* C36: the log is full, its oldest message is gone and it holds a received
\* message among the sent ones
UniqueIdsWitness ==
    /\ Len(debugMessages) = 100
    /\ debugMessages[1].id = 1
    /\ debugMessages[100].id = 100
    /\ ReceivedIn(debugMessages) = 1

=============================================================================
